---- MODULE Spec2Model ----
(***************************************************************************)
(* A model of four pieces of rbx-dom:                                      *)
(*   - rbx_reflection_database: get / get_local / get_bundled and the      *)
(*     process-wide LOCAL_DATABASE cell (specifications Spec, SpecConc);   *)
(*   - the superclass walk of a reflection database (SpecClass);           *)
(*   - the XML codec of UniqueId (SpecXml);                                *)
(*   - the numeric conversions of FontWeight and FontStyle (SpecFont).     *)
(***************************************************************************)
EXTENDS Integers, Sequences, FiniteSets, TLC

VARIABLES
    env,             \* value of the RBX_DATABASE environment variable
    home,            \* whether dirs::home_dir() / data_local_dir() is Some
    files,           \* file system: path -> content
    LOCAL_DATABASE,  \* static LOCAL_DATABASE: OnceLock<ResultOption<..>>
    BUNDLED_DATABASE,\* lazy_static BUNDLED_DATABASE: "unloaded" or "loaded"
    loads,           \* how many times the get_or_init closure has run
    first,           \* outcome of the first completed get_local() call
    ret,             \* the most recent step of the process and, for a call, its result
    onceState,       \* SpecConc: state of the OnceLock
    pc,              \* SpecConc: position of each thread
    tfn,             \* SpecConc: entry point each thread called
    tval,            \* SpecConc: value held by each thread (closure result / read)
    tret,            \* SpecConc: result returned to each thread
    cls,             \* SpecClass: the classes map of the database
    iter,            \* SpecClass: SuperClassIter.descriptor
    yielded,         \* SpecClass: what the iterator has returned so far
    start,           \* SpecClass: the descriptor the walk started from
    hs,              \* SpecClass: last has_superclass call and its result
    xml,             \* SpecXml: the codec's position, input and output
    font             \* SpecFont: the last conversion chain applied

dbVars    == <<env, home, files, LOCAL_DATABASE, BUNDLED_DATABASE, loads, first>>
seqVars   == <<ret>>
concVars  == <<onceState, pc, tfn, tval, tret>>
classVars == <<cls, iter, yielded, start, hs>>
xmlVars   == <<xml>>
fontVars  == <<font>>
vars == <<dbVars, seqVars, concVars, classVars, xmlVars, fontVars>>

----------------------------------------------------------------------------
(* rbx_reflection_database: the environment the crate reads                *)

\* Paths a database file may live at: one the override variable may name,
\* and the OS default <home>/.rbxreflection/database.msgpack.
OverridePath == "override.msgpack"
DefaultPath  == "home/.rbxreflection/database.msgpack"
Paths == {OverridePath, DefaultPath}

\* env::var(OVERRIDE_PATH_VAR) is Err for an unset variable and for one whose
\* value is not valid Unicode; otherwise it is the path.
EnvValues == {"unset", "not_unicode"} \cup Paths

\* Databases a local file may decode to; db_empty is empty.msgpack, whose
\* version is [0, 0, 0, 0].
LocalDbs == {"db_empty", "db_other"}
Bundled  == "db_bundled"

\* Content of a path: no file, a file fs::read fails on (a directory, no
\* permission), bytes that are not a MessagePack database, or a database.
FileContents == {"missing", "unreadable", "invalid"} \cup LocalDbs

\* ResultOption<T> and Result<T, Error>, as [tag, val].
Uninit   == [tag |-> "Uninit", val |-> "-"]
NoCall   == [tag |-> "NoCall", val |-> "-"]
OkNone   == [tag |-> "Ok", val |-> "None"]
OkSome(d) == [tag |-> "Ok", val |-> d]
Err(e)   == [tag |-> "Err", val |-> e]
Outcomes == {OkNone} \cup {OkSome(d) : d \in LocalDbs} \cup {Err("Io"), Err("Decode")}

\* The closure may run at most this many times in a run of the model (the
\* OnceLock keeps it to one; the cap only bounds a model without it).
MaxLoads == 3

----------------------------------------------------------------------------
(* rbx_reflection_database: the functions                                  *)

get_local_location_ignores_env(e, h) ==
    IF h THEN DefaultPath ELSE "None"

\* get_local_location(): Option<PathBuf>
get_local_location(e, h) ==
    IF e \in Paths
        THEN e
        ELSE IF h THEN DefaultPath ELSE "None"

load_local_no_exists_check(e, h, f) ==
    LET path == get_local_location(e, h) IN
    IF path = "None" THEN OkNone
    ELSE IF f[path] \in {"missing", "unreadable"} THEN Err("Io")
    ELSE IF f[path] = "invalid" THEN Err("Decode")
    ELSE OkSome(f[path])

\* The closure handed to LOCAL_DATABASE.get_or_init.
load_local(e, h, f) ==
    LET path == get_local_location(e, h) IN
    IF path = "None" THEN OkNone
    ELSE IF f[path] = "missing" THEN OkNone            \* !path.exists()
    ELSE IF f[path] = "unreadable" THEN Err("Io")      \* fs::read(path)?
    ELSE IF f[path] = "invalid" THEN Err("Decode")     \* rmp_serde::from_slice(..)?
    ELSE OkSome(f[path])

once_needs_init_always(cell) == TRUE

\* OnceLock::get_or_init runs its closure only on an empty cell.
once_needs_init(cell) == cell = Uninit

get_swallows_error(local) ==
    IF local.tag = "Err" THEN OkSome(Bundled)
    ELSE IF local = OkNone THEN OkSome(Bundled)
    ELSE local

\* get(): Ok(get_local()?.unwrap_or(&BUNDLED_DATABASE))
get_result(local) ==
    IF local.tag = "Err" THEN local
    ELSE IF local = OkNone THEN OkSome(Bundled)
    ELSE local

\* A step that is no call of the crate, or a call that returns no ResultOption.
Step(name) == [fn |-> name, local |-> NoCall, res |-> NoCall, fresh |-> FALSE]

\* The state change of one get_local() call; r is what the call returns.
LocalCall(r) ==
    LET run == once_needs_init(LOCAL_DATABASE) IN
    /\ run => loads < MaxLoads
    /\ LOCAL_DATABASE' = IF run THEN load_local(env, home, files) ELSE LOCAL_DATABASE
    /\ loads' = IF run THEN loads + 1 ELSE loads
    /\ r = LOCAL_DATABASE'
    /\ first' = IF first = NoCall THEN r ELSE first

get_local ==
    /\ \E r \in Outcomes :
        /\ LocalCall(r)
        /\ ret' = [fn |-> "get_local", local |-> r, res |-> r, fresh |-> first = NoCall]
    /\ UNCHANGED <<env, home, files, BUNDLED_DATABASE>>
    /\ UNCHANGED <<concVars, classVars, xmlVars, fontVars>>

get ==
    /\ \E r \in Outcomes :
        /\ LocalCall(r)
        /\ ret' = [fn |-> "get", local |-> r, res |-> get_result(r), fresh |-> first = NoCall]
        \* &BUNDLED_DATABASE is dereferenced once `?` has let the call through
        /\ BUNDLED_DATABASE' = IF r.tag = "Ok" THEN "loaded" ELSE BUNDLED_DATABASE
    /\ UNCHANGED <<env, home, files>>
    /\ UNCHANGED <<concVars, classVars, xmlVars, fontVars>>

get_bundled ==
    /\ BUNDLED_DATABASE' = "loaded"
    /\ ret' = [Step("get_bundled") EXCEPT !.res = OkSome(Bundled)]
    /\ UNCHANGED <<env, home, files, LOCAL_DATABASE, loads, first>>
    /\ UNCHANGED <<concVars, classVars, xmlVars, fontVars>>

\* env::set_var(OVERRIDE_PATH_VAR, ..) / remove_var, by the process itself.
SetEnv ==
    /\ \E e \in EnvValues : e # env /\ env' = e
    /\ ret' = Step("set_var")
    /\ UNCHANGED <<home, files, LOCAL_DATABASE, BUNDLED_DATABASE, loads, first>>
    /\ UNCHANGED <<concVars, classVars, xmlVars, fontVars>>

\* A database file is written, replaced or removed on disk.
ChangeFile ==
    /\ \E p \in Paths, c \in FileContents :
        /\ files[p] # c
        /\ files' = [files EXCEPT ![p] = c]
    /\ ret' = Step("fs_change")
    /\ UNCHANGED <<env, home, LOCAL_DATABASE, BUNDLED_DATABASE, loads, first>>
    /\ UNCHANGED <<concVars, classVars, xmlVars, fontVars>>

InitDb ==
    /\ env \in EnvValues
    /\ home \in BOOLEAN
    /\ files \in [Paths -> FileContents]
    /\ LOCAL_DATABASE = Uninit
    /\ BUNDLED_DATABASE = "unloaded"
    /\ loads = 0
    /\ first = NoCall

IdleSeq == ret = Step("none")
IdleConc ==
    /\ onceState = "incomplete"
    /\ pc = <<>>
    /\ tfn = <<>>
    /\ tval = <<>>
    /\ tret = <<>>
IdleClass ==
    /\ cls = <<>>
    /\ iter = "None"
    /\ yielded = <<>>
    /\ start = "None"
    /\ hs = [descriptor |-> "None", superclass |-> "None", result |-> FALSE]
\* The codec before any element has been written or received.
NoXml == [stage |-> "none", origin |-> "none",
          value |-> [random |-> 0, time |-> 0, index |-> 0],
          events |-> <<>>, pos |-> 0, result |-> [ok |-> FALSE]]
IdleXml == xml = NoXml
IdleFont == font = [kind |-> "none", steps |-> 0, in |-> 0, out1 |-> 0, out2 |-> 0]

Init == InitDb /\ IdleSeq /\ IdleConc /\ IdleClass /\ IdleXml /\ IdleFont
Next == get \/ get_local \/ get_bundled \/ SetEnv \/ ChangeFile
Spec == Init /\ [][Next]_vars

----------------------------------------------------------------------------
(* Concurrent callers of get() / get_local(): LOCAL_DATABASE.get_or_init   *)
(* taken apart into the steps other threads can interleave with.           *)

NumThreads == 2
Threads == 1 .. NumThreads

once_may_begin_unguarded(state) == state # "complete"

\* get_or_init lets a caller run the closure only when no caller has begun:
\* the OnceLock is neither being initialised nor initialised.
once_may_begin(state) == state = "incomplete"

\* A thread calls get() or get_local().
Call(t) ==
    /\ pc[t] = "idle"
    /\ \E fn \in {"get", "get_local"} : tfn' = [tfn EXCEPT ![t] = fn]
    /\ pc' = [pc EXCEPT ![t] = "enter"]
    /\ UNCHANGED <<dbVars, seqVars, onceState, tval, tret, classVars, xmlVars, fontVars>>

\* get_or_init on an initialised cell goes on to read it; on an empty one the
\* caller becomes the initialiser; while another thread initialises it blocks.
OnceEnter(t) ==
    /\ pc[t] = "enter"
    /\ \/ /\ onceState = "complete"
          /\ pc' = [pc EXCEPT ![t] = "read"]
          /\ UNCHANGED onceState
       \/ /\ once_may_begin(onceState)
          /\ onceState # "complete"
          /\ loads < MaxLoads
          /\ onceState' = "running"
          /\ pc' = [pc EXCEPT ![t] = "closure"]
    /\ UNCHANGED <<dbVars, seqVars, tfn, tval, tret, classVars, xmlVars, fontVars>>

\* The initialiser runs the closure: path lookup, exists, read, decode.
RunClosure(t) ==
    /\ pc[t] = "closure"
    /\ tval' = [tval EXCEPT ![t] = load_local(env, home, files)]
    /\ loads' = loads + 1
    /\ pc' = [pc EXCEPT ![t] = "store"]
    /\ UNCHANGED <<env, home, files, LOCAL_DATABASE, BUNDLED_DATABASE, first>>
    /\ UNCHANGED <<seqVars, onceState, tfn, tret, classVars, xmlVars, fontVars>>

\* The closure's value is written into the cell's slot ...
StoreValue(t) ==
    /\ pc[t] = "store"
    /\ LOCAL_DATABASE' = tval[t]
    /\ pc' = [pc EXCEPT ![t] = "complete"]
    /\ UNCHANGED <<env, home, files, BUNDLED_DATABASE, loads, first>>
    /\ UNCHANGED <<seqVars, onceState, tfn, tval, tret, classVars, xmlVars, fontVars>>

\* ... and only then is the cell marked initialised, which wakes the waiters.
SetComplete(t) ==
    /\ pc[t] = "complete"
    /\ onceState' = "complete"
    /\ pc' = [pc EXCEPT ![t] = "read"]
    /\ UNCHANGED <<dbVars, seqVars, tfn, tval, tret, classVars, xmlVars, fontVars>>

\* `match inner { .. }`: the caller reads the cell and returns; get() maps the
\* result through unwrap_or(&BUNDLED_DATABASE).
ReadAndReturn(t) ==
    /\ pc[t] = "read"
    /\ tval' = [tval EXCEPT ![t] = LOCAL_DATABASE]
    /\ tret' = [tret EXCEPT ![t] =
                  IF tfn[t] = "get" THEN get_result(LOCAL_DATABASE) ELSE LOCAL_DATABASE]
    /\ BUNDLED_DATABASE' =
          IF tfn[t] = "get" /\ LOCAL_DATABASE.tag = "Ok" THEN "loaded" ELSE BUNDLED_DATABASE
    /\ first' = IF first = NoCall THEN LOCAL_DATABASE ELSE first
    /\ pc' = [pc EXCEPT ![t] = "done"]
    /\ UNCHANGED <<env, home, files, LOCAL_DATABASE, loads>>
    /\ UNCHANGED <<seqVars, onceState, tfn, classVars, xmlVars, fontVars>>

\* The caller has used the result and may call again.
Finish(t) ==
    /\ pc[t] = "done"
    /\ pc' = [pc EXCEPT ![t] = "idle"]
    /\ tfn' = [tfn EXCEPT ![t] = "none"]
    /\ tval' = [tval EXCEPT ![t] = NoCall]
    /\ tret' = [tret EXCEPT ![t] = NoCall]
    /\ UNCHANGED <<dbVars, seqVars, onceState, classVars, xmlVars, fontVars>>

\* The environment the concurrent callers run in: the variable is unset or
\* names the override file, the home directory is known, the default file is
\* missing or a database, and the override file is anything. (Spec covers the
\* whole product of environments for a single caller.)
ConcEnvValues == {"unset", OverridePath}

\* Some thread calls env::set_var / remove_var while others are in a call.
ConcSetEnv ==
    /\ \E e \in ConcEnvValues : e # env /\ env' = e
    /\ UNCHANGED <<home, files, LOCAL_DATABASE, BUNDLED_DATABASE, loads, first>>
    /\ UNCHANGED <<seqVars, concVars, classVars, xmlVars, fontVars>>

\* The override file is written, replaced or removed while threads are in a call.
ConcChangeFile ==
    /\ \E c \in FileContents :
        /\ files[OverridePath] # c
        /\ files' = [files EXCEPT ![OverridePath] = c]
    /\ UNCHANGED <<env, home, LOCAL_DATABASE, BUNDLED_DATABASE, loads, first>>
    /\ UNCHANGED <<seqVars, concVars, classVars, xmlVars, fontVars>>

InitConc ==
    /\ env \in ConcEnvValues
    /\ home = TRUE
    /\ files \in {f \in [Paths -> FileContents] : f[DefaultPath] \in {"missing", "db_other"}}
    /\ LOCAL_DATABASE = Uninit
    /\ BUNDLED_DATABASE = "unloaded"
    /\ loads = 0
    /\ first = NoCall
    /\ onceState = "incomplete"
    /\ pc = [t \in Threads |-> "idle"]
    /\ tfn = [t \in Threads |-> "none"]
    /\ tval = [t \in Threads |-> NoCall]
    /\ tret = [t \in Threads |-> NoCall]

ThreadStep ==
    \E t \in Threads :
        \/ Call(t)
        \/ OnceEnter(t)
        \/ RunClosure(t)
        \/ StoreValue(t)
        \/ SetComplete(t)
        \/ ReadAndReturn(t)
        \/ Finish(t)

NextConc == ThreadStep \/ ConcSetEnv \/ ConcChangeFile
InitConcurrent == InitConc /\ IdleSeq /\ IdleClass /\ IdleXml /\ IdleFont
SpecConc == InitConcurrent /\ [][NextConc]_vars

----------------------------------------------------------------------------
(* ReflectionDatabase::superclasses_iter and has_superclass, as the tests  *)
(* superclasses_iter_test and has_superclass_test use them.                *)

\* How many classes the databases of the model hold.
NumClasses == 4
AllClassNames == <<"Root", "C", "B", "A", "D", "E", "F">>
ClassNames == {AllClassNames[i] : i \in 1 .. NumClasses}

\* ClassDescriptor.superclass: Option<name>.
Superclasses == ClassNames \cup {"None"}

\* The class named n steps up from c, following superclass names in f.
RECURSIVE Up(_, _, _)
Up(f, c, n) ==
    IF n = 0 \/ c = "None" THEN c ELSE Up(f, f[c], n - 1)

\* Every superclass chain ends at a class with no superclass.
WellFormed(f) == \A c \in ClassNames : Up(f, c, NumClasses) = "None"

\* database.classes of the databases the model walks: every class is
\* present, and the chains are acyclic.
Databases == {f \in [ClassNames -> Superclasses] : WellFormed(f)}

\* The chain A <- B <- C <- Root.
ChainDb == [c \in ClassNames |->
              CASE c = "A" -> "B"
                [] c = "B" -> "C"
                [] c = "C" -> "Root"
                [] OTHER -> "None"]

iter_advance_skips(f, d) ==
    IF d = "None" THEN "None"
    ELSE IF f[d] = "None" THEN "None" ELSE f[f[d]]

\* SuperClassIter::next, the descriptor it moves to: the current
\* descriptor's superclass name looked up in database.classes.
iter_advance(f, d) ==
    IF d = "None" THEN "None" ELSE f[d]

\* Everything superclasses_iter(d) yields before None.
RECURSIVE superclasses_of(_, _)
superclasses_of(f, d) ==
    IF d = "None" THEN <<>> ELSE <<d>> \o superclasses_of(f, iter_advance(f, d))

has_superclass_parent_only(f, d, a) ==
    d = a \/ f[d] = a

\* has_superclass(descriptor, superclass): some descriptor of the walk from
\* `descriptor` has the superclass's name.
has_superclass(f, d, a) ==
    \E i \in 1 .. Len(superclasses_of(f, d)) : superclasses_of(f, d)[i] = a

NoHasSuperclass == [descriptor |-> "None", superclass |-> "None", result |-> FALSE]

\* let mut iter = database.superclasses_iter(descriptor)
SuperclassesIter ==
    /\ \E c \in ClassNames :
        /\ start' = c
        /\ iter' = c
    /\ yielded' = <<>>
    /\ hs' = NoHasSuperclass
    /\ UNCHANGED <<cls, dbVars, seqVars, concVars, xmlVars, fontVars>>

\* iter.next(): returns the current descriptor and moves to its superclass;
\* the walk of the model stops at the first None returned.
IterNext ==
    /\ start # "None"
    /\ IF yielded = <<>> THEN TRUE ELSE yielded[Len(yielded)] # "None"
    /\ yielded' = Append(yielded, iter)
    /\ iter' = iter_advance(cls, iter)
    /\ UNCHANGED <<cls, start, hs, dbVars, seqVars, concVars, xmlVars, fontVars>>

\* database.has_superclass(descriptor, superclass)
HasSuperclass ==
    /\ \E d \in ClassNames, a \in ClassNames :
        hs' = [descriptor |-> d, superclass |-> a, result |-> has_superclass(cls, d, a)]
    /\ start' = "None"
    /\ iter' = "None"
    /\ yielded' = <<>>
    /\ UNCHANGED <<cls, dbVars, seqVars, concVars, xmlVars, fontVars>>

InitClass ==
    /\ cls \in Databases
    /\ iter = "None"
    /\ yielded = <<>>
    /\ start = "None"
    /\ hs = NoHasSuperclass
    /\ InitDb /\ env = "unset" /\ home /\ files = [p \in Paths |-> "missing"]
    /\ IdleSeq /\ IdleConc /\ IdleXml /\ IdleFont

NextClass == SuperclassesIter \/ IterNext \/ HasSuperclass
SpecClass == InitClass /\ [][NextClass]_vars

----------------------------------------------------------------------------
(* Claims about the superclass walk, checked under SpecClass.              *)

\* The proper ancestors of c: the classes one or more steps up from it.
ProperAncestors(c) == {Up(cls, c, n) : n \in 1 .. NumClasses} \ {"None"}

\* C5: superclasses_iter(C) yields C itself first, then each successive
\* superclass found by looking up the previous descriptor's superclass name,
\* with no omissions or repeats, and yields None right after the first
\* descriptor that has no superclass; for A <- B <- C <- Root it yields
\* exactly [A, B, C, Root].
C5_SuperclassChain ==
    start # "None" =>
        /\ Len(yielded) >= 1 => yielded[1] = start
        /\ \A i \in 2 .. Len(yielded) :
              /\ yielded[i - 1] # "None"
              /\ yielded[i] = cls[yielded[i - 1]]
        /\ \A i, j \in 1 .. Len(yielded) : i # j => yielded[i] # yielded[j]
        /\ (cls = ChainDb /\ start = "A" /\ Len(yielded) = 5)
              => yielded = <<"A", "B", "C", "Root", "None">>

\* The walk from A over the chain A <- B <- C <- Root has ended.
C5_Witness ==
    /\ cls = ChainDb /\ start = "A"
    /\ yielded = <<"A", "B", "C", "Root", "None">>

\* C6: has_superclass(D, A) is true whenever A is a proper ancestor of D and
\* false whenever A is a proper descendant of D.
C6_HasSuperclass ==
    LET d == hs.descriptor
        a == hs.superclass
    IN  (d # "None" /\ d # a) =>
            /\ a \in ProperAncestors(d) => hs.result
            /\ d \in ProperAncestors(a) => ~hs.result

\* has_superclass_test on A <- B <- C <- Root: has_superclass(A, Root) holds
\* (Part, Instance).
C6_Witness ==
    /\ cls = ChainDb
    /\ hs.descriptor = "A" /\ hs.superclass = "Root"
    /\ hs.result

\* ... and has_superclass(Root, A) does not (Instance, Part).
C6_WitnessReverse ==
    /\ cls = ChainDb
    /\ hs.descriptor = "Root" /\ hs.superclass = "A"
    /\ ~hs.result

----------------------------------------------------------------------------
(* rbx_xml: impl XmlType for UniqueId                                      *)

\* Hex digits of the string form of each component. The crate's widths are
\* 16, 8 and 8 digits (i64, u32, u32); the model keeps the layout with
\* fewer digits per component.
RandomDigits == 4
TimeDigits == 2
IndexDigits == 2
TextLen == RandomDigits + TimeDigits + IndexDigits

HexChars == <<"0", "1", "2", "3", "4", "5", "6", "7",
              "8", "9", "a", "b", "c", "d", "e", "f">>

RECURSIVE Pow16(_)
Pow16(n) == IF n = 0 THEN 1 ELSE 16 * Pow16(n - 1)

\* {:0wx}: n as w lower-case hex digits, most significant first.
ToHex(n, w) == [i \in 1 .. w |-> HexChars[((n \div Pow16(w - i)) % 16) + 1]]

IsHexChar(c) == \E i \in 1 .. 16 : HexChars[i] = c
HexValue(c) == (CHOOSE i \in 1 .. 16 : HexChars[i] = c) - 1

\* from_str_radix(s, 16) on a string of hex digits.
RECURSIVE ParseHex(_)
ParseHex(s) ==
    IF s = <<>> THEN 0
    ELSE 16 * ParseHex(SubSeq(s, 1, Len(s) - 1)) + HexValue(s[Len(s)])

\* A signed component is printed and parsed in two's complement.
ToUnsigned(n, w) == n % Pow16(w)
ToSigned(n, w) == IF n >= Pow16(w) \div 2 THEN n - Pow16(w) ELSE n

\* UniqueId { index, time, random }
UniqueIdOf(r, t, i) == [random |-> r, time |-> t, index |-> i]

\* impl Display for UniqueId: random, time, index as fixed-width hex.
unique_id_to_string(v) ==
    ToHex(ToUnsigned(v.random, RandomDigits), RandomDigits)
        \o ToHex(v.time, TimeDigits) \o ToHex(v.index, IndexDigits)

\* impl FromStr for UniqueId: [ok, value] or [ok = FALSE, error].
unique_id_from_str(s) ==
    IF Len(s) # TextLen THEN [ok |-> FALSE, error |-> "FromStrBadLen"]
    ELSE IF \E k \in 1 .. Len(s) : ~IsHexChar(s[k])
        THEN [ok |-> FALSE, error |-> "FromStrBadChar"]
    ELSE [ok |-> TRUE,
          value |-> UniqueIdOf(
              ToSigned(ParseHex(SubSeq(s, 1, RandomDigits)), RandomDigits),
              ParseHex(SubSeq(s, RandomDigits + 1, RandomDigits + TimeDigits)),
              ParseHex(SubSeq(s, RandomDigits + TimeDigits + 1, TextLen)))]

\* Document events.
StartEv(tag) == [kind |-> "start", tag |-> tag, text |-> <<>>]
EndEv(tag)   == [kind |-> "end", tag |-> tag, text |-> <<>>]
TextEv(s)    == [kind |-> "text", tag |-> "", text |-> s]

XML_TAG_NAME == "UniqueId"

\* XmlEventWriter::write_value: a start/text/end triple.
write_value(tag, s) == <<StartEv(tag), TextEv(s), EndEv(tag)>>

\* XmlEventReader::error: the kind with the reader's current position.
reader_error(pos, kind) == [ok |-> FALSE, kind |-> kind, pos |-> pos]

\* XmlEventReader::read_characters from position pos (events consumed so
\* far): concatenates the text events up to the end tag, which it leaves;
\* any other event, or the end of input, is an error at that position.
RECURSIVE read_characters(_, _, _)
read_characters(events, pos, acc) ==
    IF pos >= Len(events)
        THEN [res |-> reader_error(pos, [kind |-> "UnexpectedEof"]), pos |-> pos]
    ELSE IF events[pos + 1].kind = "text"
        THEN read_characters(events, pos + 1, acc \o events[pos + 1].text)
    ELSE IF events[pos + 1].kind = "end"
        THEN [res |-> [ok |-> TRUE, text |-> acc], pos |-> pos]
    ELSE [res |-> reader_error(pos, [kind |-> "UnexpectedXmlEvent"]), pos |-> pos]

\* impl From<UniqueIdError> for DecodeErrorKind
decode_error_kind(e) ==
    [kind |-> "InvalidPropertyData", property_type |-> "UniqueId", error |-> e]

read_xml_defaults_on_error(events, pos) ==
    LET chars == read_characters(events, pos, <<>>) IN
    IF ~chars.res.ok THEN chars
    ELSE LET parsed == unique_id_from_str(chars.res.text) IN
         [res |-> [ok |-> TRUE,
                   value |-> IF parsed.ok THEN parsed.value ELSE UniqueIdOf(0, 0, 0)],
          pos |-> chars.pos]

\* UniqueId::read_xml: [res, pos], the result and the reader's position after.
read_xml(events, pos) ==
    LET chars == read_characters(events, pos, <<>>) IN
    IF ~chars.res.ok THEN chars                         \* read_characters()?
    ELSE LET parsed == unique_id_from_str(chars.res.text) IN
         IF parsed.ok
            THEN [res |-> [ok |-> TRUE, value |-> parsed.value], pos |-> chars.pos]
            ELSE [res |-> reader_error(chars.pos, decode_error_kind(parsed.error)),
                  pos |-> chars.pos]

write_xml_drops_text(v) ==
    write_value(XML_TAG_NAME, <<>>)

\* UniqueId::write_xml
write_xml(v) ==
    write_value(XML_TAG_NAME, unique_id_to_string(v))

\* The values the model encodes: the ends of each component's range and
\* values around zero.
SampleUnsigned(w) == {0, 1, 10, Pow16(w) \div 2, Pow16(w) - 1}
SampleSigned(w) == {-(Pow16(w) \div 2), -1, 0, 1, 171, Pow16(w) \div 2 - 1}
SampleIds ==
    {UniqueIdOf(r, t, i) : r \in SampleSigned(RandomDigits),
                           t \in SampleUnsigned(TimeDigits),
                           i \in SampleUnsigned(IndexDigits)}

\* Character content a document may carry for a UniqueId element: string
\* forms of values, and texts that are no string form.
GoodText == unique_id_to_string(UniqueIdOf(-1, 10, 1))
BadTexts ==
    { <<>>,
      SubSeq(GoodText, 1, TextLen - 1),
      GoodText \o <<"0">>,
      [GoodText EXCEPT ![1] = "g"],
      [GoodText EXCEPT ![TextLen] = "-"],
      <<"n", "u", "l", "l">> }
DocTexts == {unique_id_to_string(v) : v \in SampleIds} \cup BadTexts

\* The shapes a UniqueId element of a document takes: its text in one event,
\* split over two, cut off by a child element, or cut off by the end of input.
DocShapes == {"plain", "split", "child", "eof"}
Document(s, shape) ==
    LET h == Len(s) \div 2 IN
    CASE shape = "plain" -> <<StartEv(XML_TAG_NAME), TextEv(s), EndEv(XML_TAG_NAME)>>
      [] shape = "split" -> <<StartEv(XML_TAG_NAME), TextEv(SubSeq(s, 1, h)),
                              TextEv(SubSeq(s, h + 1, Len(s))), EndEv(XML_TAG_NAME)>>
      [] shape = "child" -> <<StartEv(XML_TAG_NAME), TextEv(s), StartEv("Item")>>
      [] shape = "eof"   -> <<StartEv(XML_TAG_NAME), TextEv(s)>>

\* The serializer writes a UniqueId property.
WriteXml ==
    /\ xml.stage \in {"none", "read"}
    /\ \E v \in SampleIds :
        xml' = [NoXml EXCEPT !.stage = "written", !.origin = "writer",
                             !.value = v, !.events = write_xml(v)]
    /\ UNCHANGED <<dbVars, seqVars, concVars, classVars, fontVars>>

\* A document from elsewhere reaches the deserializer.
ReceiveDocument ==
    /\ xml.stage \in {"none", "read"}
    /\ \E s \in DocTexts, shape \in DocShapes :
        xml' = [NoXml EXCEPT !.stage = "received", !.origin = "document",
                             !.events = Document(s, shape)]
    /\ UNCHANGED <<dbVars, seqVars, concVars, classVars, fontVars>>

\* The deserializer consumes the element's start tag (expect_start).
OpenElement ==
    /\ xml.stage \in {"written", "received"}
    /\ xml.pos = 0
    /\ xml.events[1].kind = "start" /\ xml.events[1].tag = XML_TAG_NAME
    /\ xml' = [xml EXCEPT !.pos = 1, !.stage = "opened"]
    /\ UNCHANGED <<dbVars, seqVars, concVars, classVars, fontVars>>

\* UniqueId::read_xml(reader)
ReadXml ==
    /\ xml.stage = "opened"
    /\ LET r == read_xml(xml.events, xml.pos) IN
        xml' = [xml EXCEPT !.stage = "read", !.pos = r.pos, !.result = r.res]
    /\ UNCHANGED <<dbVars, seqVars, concVars, classVars, fontVars>>

InitXml ==
    /\ xml = NoXml
    /\ InitDb /\ env = "unset" /\ home /\ files = [p \in Paths |-> "missing"]
    /\ IdleSeq /\ IdleConc /\ IdleClass /\ IdleFont

NextXml == WriteXml \/ ReceiveDocument \/ OpenElement \/ ReadXml
SpecXml == InitXml /\ [][NextXml]_vars

----------------------------------------------------------------------------
(* rbx_types: FontWeight and FontStyle numeric conversions                 *)

U16Max == 65535
U8Max == 255

FontWeights == {"Thin", "ExtraLight", "Light", "Regular", "Medium",
                "SemiBold", "Bold", "ExtraBold", "Heavy"}
FontStyles == {"Normal", "Italic"}

from_u16_heavy_twice(weight) ==
    CASE weight = 100 -> "Thin"
      [] weight = 200 -> "ExtraLight"
      [] weight = 300 -> "Light"
      [] weight = 400 -> "Regular"
      [] weight = 500 -> "Medium"
      [] weight = 600 -> "SemiBold"
      [] weight = 700 -> "Bold"
      [] weight = 800 -> "Heavy"
      [] weight = 900 -> "Heavy"
      [] OTHER -> "Regular"

\* FontWeight::from_u16
from_u16(weight) ==
    CASE weight = 100 -> "Thin"
      [] weight = 200 -> "ExtraLight"
      [] weight = 300 -> "Light"
      [] weight = 400 -> "Regular"
      [] weight = 500 -> "Medium"
      [] weight = 600 -> "SemiBold"
      [] weight = 700 -> "Bold"
      [] weight = 800 -> "ExtraBold"
      [] weight = 900 -> "Heavy"
      [] OTHER -> "Regular"

\* FontWeight::as_u16
as_u16(self) ==
    CASE self = "Thin" -> 100
      [] self = "ExtraLight" -> 200
      [] self = "Light" -> 300
      [] self = "Regular" -> 400
      [] self = "Medium" -> 500
      [] self = "SemiBold" -> 600
      [] self = "Bold" -> 700
      [] self = "ExtraBold" -> 800
      [] self = "Heavy" -> 900

\* FontStyle::from_u8
from_u8(style) ==
    CASE style = 0 -> "Normal"
      [] style = 1 -> "Italic"
      [] OTHER -> "Normal"

\* FontStyle::as_u8
as_u8(self) ==
    CASE self = "Normal" -> 0
      [] self = "Italic" -> 1

\* The value the next conversion applies to.
FontCurrent == IF font.steps = 0 THEN font.in ELSE font.out1

\* Whether the next conversion takes a number (or else an enum value).
FontHoldsNumber ==
    \/ font.kind \in {"u16", "u8"} /\ font.steps = 0
    \/ font.kind \in {"weight", "style"} /\ font.steps = 1

FontApply(v) ==
    font' = IF font.steps = 0
                THEN [font EXCEPT !.steps = 1, !.out1 = v]
                ELSE [font EXCEPT !.steps = 2, !.out2 = v]

FontWeightFromU16 ==
    /\ font.kind \in {"u16", "weight"} /\ font.steps < 2 /\ FontHoldsNumber
    /\ FontApply(from_u16(FontCurrent))
    /\ UNCHANGED <<dbVars, seqVars, concVars, classVars, xmlVars>>

FontWeightAsU16 ==
    /\ font.kind \in {"u16", "weight"} /\ font.steps < 2 /\ ~FontHoldsNumber
    /\ FontApply(as_u16(FontCurrent))
    /\ UNCHANGED <<dbVars, seqVars, concVars, classVars, xmlVars>>

FontStyleFromU8 ==
    /\ font.kind \in {"u8", "style"} /\ font.steps < 2 /\ FontHoldsNumber
    /\ FontApply(from_u8(FontCurrent))
    /\ UNCHANGED <<dbVars, seqVars, concVars, classVars, xmlVars>>

FontStyleAsU8 ==
    /\ font.kind \in {"u8", "style"} /\ font.steps < 2 /\ ~FontHoldsNumber
    /\ FontApply(as_u8(FontCurrent))
    /\ UNCHANGED <<dbVars, seqVars, concVars, classVars, xmlVars>>

FontInputs ==
    {[kind |-> "u16", steps |-> 0, in |-> n, out1 |-> 0, out2 |-> 0] : n \in 0 .. U16Max}
    \cup {[kind |-> "u8", steps |-> 0, in |-> n, out1 |-> 0, out2 |-> 0] : n \in 0 .. U8Max}
    \cup {[kind |-> "weight", steps |-> 0, in |-> w, out1 |-> 0, out2 |-> 0] : w \in FontWeights}
    \cup {[kind |-> "style", steps |-> 0, in |-> y, out1 |-> 0, out2 |-> 0] : y \in FontStyles}

InitFont ==
    /\ font \in FontInputs
    /\ InitDb /\ env = "unset" /\ home /\ files = [p \in Paths |-> "missing"]
    /\ IdleSeq /\ IdleConc /\ IdleClass /\ IdleXml

NextFont == FontWeightFromU16 \/ FontWeightAsU16 \/ FontStyleFromU8 \/ FontStyleAsU8
SpecFont == InitFont /\ [][NextFont]_vars

----------------------------------------------------------------------------
(* Claims about the font conversions, checked under SpecFont.              *)

RecognisedWeights == {100 * k : k \in 1 .. 9}

\* C10: from_u16(as_u16(w)) = w for every FontWeight and from_u8(as_u8(s)) = s
\* for every FontStyle; every u16 other than 100, 200, ..., 900 maps to
\* Regular and every u8 other than 0 and 1 maps to Normal, so
\* as_u16(from_u16(n)) = n exactly for the nine recognised weights and
\* as_u8(from_u8(n)) = n exactly for 0 and 1.
C10_FontRoundTrip ==
    /\ (font.kind \in {"weight", "style"} /\ font.steps = 2) => font.out2 = font.in
    /\ (font.kind = "weight" /\ font.steps >= 1) => font.out1 \in RecognisedWeights
    /\ (font.kind = "style" /\ font.steps >= 1) => font.out1 \in {0, 1}
    /\ (font.kind = "u16" /\ font.steps >= 1) =>
          /\ font.out1 \in FontWeights
          /\ font.in \notin RecognisedWeights => font.out1 = "Regular"
    /\ (font.kind = "u8" /\ font.steps >= 1) =>
          /\ font.out1 \in FontStyles
          /\ font.in \notin {0, 1} => font.out1 = "Normal"
    /\ (font.kind = "u16" /\ font.steps = 2) =>
          (font.out2 = font.in <=> font.in \in RecognisedWeights)
    /\ (font.kind = "u8" /\ font.steps = 2) =>
          (font.out2 = font.in <=> font.in \in {0, 1})

\* The largest u16 has gone through from_u16 and as_u16 and come back as 400.
C10_Witness ==
    /\ font.kind = "u16" /\ font.steps = 2
    /\ font.in = U16Max
    /\ font.out1 = "Regular" /\ font.out2 = 400

\* ExtraBold has gone through as_u16 and from_u16 and come back.
C10_WitnessEnum ==
    /\ font.kind = "weight" /\ font.steps = 2
    /\ font.in = "ExtraBold" /\ font.out1 = 800 /\ font.out2 = "ExtraBold"

----------------------------------------------------------------------------
(* Claims about get / get_local / get_bundled, checked under Spec.          *)
(* ret describes the step just taken, so env, home and files in a state    *)
(* where ret.fn is a call are the ones that call ran with.                 *)

IsCall == ret.fn \in {"get", "get_local"}
\* The call just made is the one that ran the get_or_init closure.
IsLoad == IsCall /\ ret.fresh
PlainFiles == \A p \in Paths : files[p] \in {"missing"} \cup LocalDbs

\* The first source that is present, in the order override file, default
\* file, bundled snapshot.
FirstPresent ==
    IF env \in Paths /\ files[env] \in LocalDbs THEN files[env]
    ELSE IF home /\ files[DefaultPath] \in LocalDbs THEN files[DefaultPath]
    ELSE Bundled

\* C1 as stated: for every combination of {variable set/unset} x {override
\* file exists/missing} x {default file exists/missing}, get() returns the
\* database of the first present source in the order override file, default
\* file, bundled snapshot.
C1_FirstPresentSource ==
    (ret.fn = "get" /\ IsLoad /\ PlainFiles) => ret.res = OkSome(FirstPresent)

\* C1 amended: the loading get() looks at exactly one local location, the
\* path in RBX_DATABASE when the variable is set to valid Unicode and the OS
\* default location otherwise (none when the home directory is unknown); it
\* returns the database of the file there when one exists, and the bundled
\* snapshot when there is no location or no file there. The default location
\* is not consulted when the variable is set.
C1_ChosenLocation ==
    (ret.fn = "get" /\ IsLoad /\ PlainFiles) =>
        LET useEnv == env \notin {"unset", "not_unicode"} IN
        /\ (useEnv /\ files[env] \in LocalDbs) => ret.res = OkSome(files[env])
        /\ (useEnv /\ files[env] = "missing") => ret.res = OkSome(Bundled)
        /\ (~useEnv /\ home /\ files[DefaultPath] \in LocalDbs)
               => ret.res = OkSome(files[DefaultPath])
        /\ (~useEnv /\ (~home \/ files[DefaultPath] = "missing"))
               => ret.res = OkSome(Bundled)

\* get() has loaded with the variable naming a missing file while the default
\* file exists: the bundled snapshot is returned.
C1_Witness ==
    /\ ret.fn = "get" /\ IsLoad
    /\ env = OverridePath /\ files[OverridePath] = "missing"
    /\ home /\ files[DefaultPath] = "db_other"
    /\ ret.res = OkSome(Bundled)

\* C2: get_local() has a three-state result in which absence is no error:
\* Ok(None) exactly when there is no location or no file at it, Err exactly
\* when the file there cannot be read or decoded, Ok(Some(db)) with the
\* file's database otherwise; get() returns the bundled database exactly
\* when get_local() is Ok(None) and returns the error when it is Err.
C2_ThreeState ==
    /\ IsLoad =>
        LET path == get_local_location(env, home)
            absent == path = "None" \/ files[path] = "missing"
        IN
        /\ (ret.local = OkNone) <=> absent
        /\ (ret.local.tag = "Err") <=> (~absent /\ files[path] \in {"unreadable", "invalid"})
        /\ (~absent /\ files[path] \in LocalDbs) => ret.local = OkSome(files[path])
        /\ ret.local \in Outcomes
    /\ ret.fn = "get" =>
        /\ (ret.res = OkSome(Bundled)) <=> (ret.local = OkNone)
        /\ ret.local.tag = "Err" => ret.res = ret.local

\* get() has loaded from a location whose file is not a MessagePack database
\* and returned the error.
C2_Witness ==
    /\ ret.fn = "get" /\ IsLoad
    /\ get_local_location(env, home) # "None"
    /\ files[get_local_location(env, home)] = "invalid"
    /\ ret.res.tag = "Err"

\* C3: the local database is loaded at most once per process: every call of
\* get_local() or get() returns the outcome of the first completed call,
\* whatever the variable and the files are by then, and the closure (the
\* only reader of the file system) has run at most once.
C3_LoadedOnce ==
    /\ loads <= 1
    /\ LOCAL_DATABASE # Uninit <=> first # NoCall
    /\ first # NoCall => LOCAL_DATABASE = first
    /\ IsCall =>
        /\ ret.local = first
        /\ ret.fn = "get_local" => ret.res = first
        /\ ret.fn = "get" => ret.res = get_result(first)

\* A later get() returned the first outcome although the variable and the
\* files now name a different one.
C3_Witness ==
    /\ ret.fn = "get" /\ ~ret.fresh
    /\ loads = 1
    /\ load_local(env, home, files) # first
    /\ ret.local = first

\* C4 as stated: whenever RBX_DATABASE names an existing valid database
\* file, get() returns that file's database, after any preceding calls.
C4_OverrideAlwaysWins ==
    (ret.fn = "get" /\ env \in Paths /\ files[env] \in LocalDbs)
        => ret.res = OkSome(files[env])

\* C4 amended: when RBX_DATABASE names an existing valid database file,
\* get() returns that file's database provided no call of get() or
\* get_local() has completed earlier in the process; preceding get_bundled()
\* and set-environment operations do not matter.
C4_OverrideWinsOnFirstLoad ==
    (ret.fn = "get" /\ IsLoad /\ env \in Paths /\ files[env] \in LocalDbs)
        => ret.res = OkSome(files[env])

\* The env_var test after get_bundled(): the variable names empty.msgpack and
\* the loading get() returns the database whose version is [0, 0, 0, 0].
C4_Witness ==
    /\ ret.fn = "get" /\ IsLoad
    /\ BUNDLED_DATABASE = "loaded"
    /\ env = OverridePath /\ files[OverridePath] = "db_empty"
    /\ ret.res = OkSome("db_empty")

----------------------------------------------------------------------------
(* Claims about concurrent callers, checked under SpecConc.                *)

Initialisers == {t \in Threads : pc[t] \in {"closure", "store", "complete"}}

C9_State ==
    \* the closure runs at most once, in at most one thread at a time
    /\ loads <= 1
    /\ Cardinality(Initialisers) <= 1
    \* a caller reads the cell only once it is initialised and whole
    /\ \A t \in Threads : pc[t] = "read" =>
          onceState = "complete" /\ LOCAL_DATABASE \in Outcomes
    \* every caller that has returned got the one outcome
    /\ \A t \in Threads : pc[t] = "done" =>
          /\ tval[t] \in Outcomes
          /\ tval[t] = LOCAL_DATABASE
          /\ tval[t] = first
          /\ tret[t] = IF tfn[t] = "get" THEN get_result(first) ELSE first

C9_NoWriteAfterInit ==
    [][onceState = "complete" =>
          (LOCAL_DATABASE' = LOCAL_DATABASE /\ onceState' = onceState)]_vars

\* C9: under any interleaving of concurrent callers of get_local()/get(),
\* the initialiser runs to completion at most once, no caller observes a
\* partially initialised database, all callers receive the same outcome, and
\* once the cell is initialised it is never written again.
C9_InitialisedOnce == []C9_State /\ C9_NoWriteAfterInit

\* Two threads have returned from different entry points with the outcome
\* of the single load, although the environment now names another one.
C9_Witness ==
    \E t1, t2 \in Threads :
        /\ t1 # t2
        /\ pc[t1] = "done" /\ pc[t2] = "done"
        /\ tfn[t1] = "get" /\ tfn[t2] = "get_local"
        /\ loads = 1
        /\ tval[t1] = tval[t2]
        /\ load_local(env, home, files) # LOCAL_DATABASE

----------------------------------------------------------------------------
(* Claims about the UniqueId codec, checked under SpecXml.                 *)

\* A text that is the string form of some UniqueId.
WellFormedText(s) ==
    /\ Len(s) = TextLen
    /\ \A k \in 1 .. Len(s) : s[k] \in {HexChars[i] : i \in 1 .. 16}

\* What read_characters gave read_xml: the reader stood right after the
\* start tag.
CharsRead == read_characters(xml.events, 1, <<>>)

C8_InvalidPropertyData ==
    xml.stage = "read" =>
        /\ ~CharsRead.res.ok => xml.result = CharsRead.res
        /\ (CharsRead.res.ok /\ ~WellFormedText(CharsRead.res.text)) =>
              /\ ~xml.result.ok
              /\ xml.result.kind.kind = "InvalidPropertyData"
              /\ xml.result.kind.property_type = "UniqueId"
              /\ xml.result.pos = xml.pos

\* A text with a character that is no hex digit, split over two text
\* events, has been read: the error is raised at the position after both.
C8_Witness ==
    /\ xml.stage = "read" /\ xml.origin = "document"
    /\ Len(xml.events) = 4
    /\ CharsRead.res.ok /\ CharsRead.res.text = [GoodText EXCEPT ![1] = "g"]
    /\ ~xml.result.ok
    /\ xml.result.kind.kind = "InvalidPropertyData"
    /\ xml.result.pos = 3

\* read_characters failed on a child element and read_xml returned its error.
C8_WitnessPropagated ==
    /\ xml.stage = "read"
    /\ ~CharsRead.res.ok
    /\ xml.result = reader_error(2, [kind |-> "UnexpectedXmlEvent"])

====
